---- MODULE Spec2Model ----
(***************************************************************************)
(* gh-migrate-releases: the release reconciliation and transfer engine.    *)
(*                                                                         *)
(* One process run of SyncReleases (pkg/sync/sync.go) against a source     *)
(* host, a target host and the local scratch directory "tmp".  The remote  *)
(* calls of internal/api are the steps; every remote call may fail.        *)
(***************************************************************************)
EXTENDS Integers, Sequences, FiniteSets, TLC

(***************************************************************************)
(* Bounds of the model.                                                    *)
(***************************************************************************)
MaxReleases == 2    \* source releases listed
MaxAssets == 2      \* assets of one source release
MaxRuns == 2        \* entries of the repository list (runs on one repository)
MaxFaults == 2      \* failing remote calls in one behaviour
PerPage == 1        \* releases on one page of the listing (ListOptions.PerPage)

TagNames == <<"v1", "v2", "v3", "v4">>
AssetNames == <<"a.zip", "b.zip", "c.zip", "d.zip">>

Tags == {TagNames[i] : i \in 1..MaxReleases}
Names == {AssetNames[k] : k \in 1..MaxAssets}

(***************************************************************************)
(* Values.  A nil *github.RepositoryRelease answers every getter with the  *)
(* zero value, so nil is the all-zero record.  The scratch directory is    *)
(* the set of its files, each a name and a length in bytes.                *)
(***************************************************************************)
NilRelease ==
    [id |-> 0, tag |-> "", name |-> "", commitish |-> "", body |-> "", assets |-> {}]

HasFile(dir, fileName) == \E f \in dir : f.name = fileName
FileSize(dir, fileName) == (CHOOSE f \in dir : f.name = fileName).size
\* os.Create adding a second file of the name instead of emptying the first
WriteFileBeside(dir, fileName, n) == dir \cup {[name |-> fileName, size |-> n]}

WriteFile(dir, fileName, n) ==
    {f \in dir : f.name # fileName} \cup {[name |-> fileName, size |-> n]}
RemoveFile(dir, fileName) == {f \in dir : f.name # fileName}

SourceAssets(a) == [k \in 1..a |-> [name |-> AssetNames[k], size |-> 1]]

\* the first release carries up to MaxAssets assets, a later one at most one
AssetCount(i, a) == IF i = 1 THEN a ELSE IF a > 0 THEN 1 ELSE 0

SourceRelease(i, a) ==
    [id |-> i, tag |-> TagNames[i], name |-> "A", commitish |-> "main",
     body |-> "notes", assets |-> SourceAssets(a)]

TagIndex(tag) == CHOOSE i \in 1..Len(TagNames) : TagNames[i] = tag

\* the id the target host gives the release of a tag
TargetID(tag) == 100 + TagIndex(tag)

TargetRelease(tag, name, commitish, body, assets) ==
    [id |-> TargetID(tag), tag |-> tag, name |-> name, commitish |-> commitish,
     body |-> body, assets |-> assets]

\* what the target may hold under the first tag before the process starts
InitialTargetReleases ==
    { NilRelease,
      TargetRelease("v1", "A", "main", "old notes", {[name |-> "a.zip", size |-> 1],
                                                     [name |-> "b.zip", size |-> 2]}),
      TargetRelease("v1", "A", "main", "old notes", {[name |-> "a.zip", size |-> 2]}),
      TargetRelease("v1", "B", "main", "old notes", {[name |-> "a.zip", size |-> 1]}),
      TargetRelease("v1", "A", "dev", "old notes", {}) }

(***************************************************************************)
(* Error texts.  The engine tells a conflict from another failure by       *)
(* strings.Contains on the text, so a text is modelled by the phrases it   *)
(* contains.                                                               *)
(***************************************************************************)
NoErr == "nil"
ErrValidation == "422 Validation Failed [{Resource:Release Code:already_exists Field:tag_name}]"
ErrServer == "500 Internal Server Error"
ErrNotFound == "404 Not Found"
ErrReleaseExists == "release already exists: A"

Phrases(msg) ==
    CASE msg = ErrValidation -> {"already_exists"}
      [] msg = ErrReleaseExists -> {"already exists"}
      [] OTHER -> {}

Contains(msg, phrase) == phrase \in Phrases(msg)

(***************************************************************************)
(* internal/api: the functions the engine calls.  `host` is the target     *)
(* repository: tag -> release, NilRelease where the tag has none.          *)
(* `outcome` is what the network does to the call.                         *)
(***************************************************************************)
\* AssetExists with the nil test turned round: no release ever has the asset
AssetExistsNilTest(release, assetName, assetSize) ==
    IF release # NilRelease \/ release.assets = {}
    THEN FALSE
    ELSE \E existingAsset \in release.assets :
            existingAsset.name = assetName /\ existingAsset.size = assetSize

\* AssetExists comparing the name alone
AssetExistsByName(release, assetName, assetSize) ==
    IF release = NilRelease \/ release.assets = {}
    THEN FALSE
    ELSE \E existingAsset \in release.assets : existingAsset.name = assetName

AssetExists(release, assetName, assetSize) ==
    IF release = NilRelease \/ release.assets = {}
    THEN FALSE
    ELSE \E existingAsset \in release.assets :
            existingAsset.name = assetName /\ existingAsset.size = assetSize

GetReleaseByTag(host, tagName, outcome) ==
    IF outcome # "ok"
    THEN [release |-> NilRelease, err |-> ErrServer]
    ELSE IF tagName \notin DOMAIN host \/ host[tagName] = NilRelease
         THEN [release |-> NilRelease, err |-> ErrNotFound]
         ELSE [release |-> host[tagName], err |-> NoErr]

\* ReleaseExists comparing the target's name with the source's tag
ReleaseExistsNameAgainstTag(host, release, outcome) ==
    IF release = NilRelease \/ release.tag = ""
    THEN [existing |-> NilRelease, exists |-> FALSE]
    ELSE LET got == GetReleaseByTag(host, release.tag, outcome)
             nameMatches == got.release.name = release.tag
             commitMatches == got.release.commitish = release.commitish
         IN  IF got.err # NoErr
             THEN [existing |-> NilRelease, exists |-> FALSE]
             ELSE [existing |-> got.release, exists |-> nameMatches /\ commitMatches]

\* ReleaseExists without the comparison of target_commitish
ReleaseExistsNoCommit(host, release, outcome) ==
    IF release = NilRelease \/ release.tag = ""
    THEN [existing |-> NilRelease, exists |-> FALSE]
    ELSE LET got == GetReleaseByTag(host, release.tag, outcome)
             nameMatches == got.release.name = release.name
         IN  IF got.err # NoErr
             THEN [existing |-> NilRelease, exists |-> FALSE]
             ELSE [existing |-> got.release, exists |-> nameMatches]

ReleaseExists(host, release, outcome) ==
    IF release = NilRelease \/ release.tag = ""
    THEN [existing |-> NilRelease, exists |-> FALSE]
    ELSE LET got == GetReleaseByTag(host, release.tag, outcome)
             nameMatches == got.release.name = release.name
             commitMatches == got.release.commitish = release.commitish
         IN  IF got.err # NoErr
             THEN [existing |-> NilRelease, exists |-> FALSE]
             ELSE [existing |-> got.release, exists |-> nameMatches /\ commitMatches]

\* a host that writes the posted release over the one the tag has
HostCreateReleaseOver(host, release, outcome) ==
    IF outcome = "fault"
    THEN [host |-> host, release |-> NilRelease, err |-> ErrServer]
    ELSE LET made == TargetRelease(release.tag, release.name, release.commitish,
                                   release.body, host[release.tag].assets)
         IN  IF outcome = "lost"
             THEN [host |-> [host EXCEPT ![release.tag] = made],
                   release |-> NilRelease, err |-> ErrServer]
             ELSE [host |-> [host EXCEPT ![release.tag] = made],
                   release |-> made, err |-> NoErr]

\* the source host's answer to GET /repos/{owner}/{repo}/releases?page=p:
\* PerPage releases of the listing and the number of the next page, 0 after
\* the last; no page parameter (0) asks for the first page
PageNumber(p) == IF p = 0 THEN 1 ELSE p
HostListReleases(all, p) ==
    LET from == (PageNumber(p) - 1) * PerPage + 1
        to == IF PageNumber(p) * PerPage < Len(all) THEN PageNumber(p) * PerPage
              ELSE Len(all)
    IN  [releases |-> SubSeq(all, from, to),
         nextPage |-> IF PageNumber(p) * PerPage < Len(all) THEN PageNumber(p) + 1 ELSE 0]

\* the loop keeping the last page only
AppendPageKeepingLast(allReleases, pageReleases) == pageReleases

\* part_000:68
AppendPage(allReleases, pageReleases) == allReleases \o pageReleases

\* the target host's answer to POST /repos/{owner}/{repo}/releases
HostCreateRelease(host, release, outcome) ==
    IF outcome = "fault"
    THEN [host |-> host, release |-> NilRelease, err |-> ErrServer]
    ELSE IF release.tag \notin DOMAIN host \/ host[release.tag] # NilRelease
         THEN [host |-> host, release |-> NilRelease, err |-> ErrValidation]
         ELSE LET made == TargetRelease(release.tag, release.name, release.commitish,
                                        release.body, {})
              IN  IF outcome = "lost"
                  THEN [host |-> [host EXCEPT ![release.tag] = made],
                        release |-> NilRelease, err |-> ErrServer]
                  ELSE [host |-> [host EXCEPT ![release.tag] = made],
                        release |-> made, err |-> NoErr]

CreateRelease(host, release, outcome) ==
    LET r == HostCreateRelease(host, release, outcome)
    IN  IF r.err # NoErr /\ Contains(r.err, "already_exists")
        THEN [r EXCEPT !.err = ErrReleaseExists]
        ELSE r

(***************************************************************************)
(* pkg/sync: the decisions of migrateRepositoryReleases and of checkVars.  *)
(***************************************************************************)
\* IsConflict looking for the host's code instead of the text CreateRelease returns
IsConflictByCode(err) == Contains(err, "already_exists")

\* sync.go:165
IsConflict(err) == Contains(err, "already exists")

\* IsLatestCandidate without the comparison of the ids
IsLatestCandidateAny(latest, release) == latest # 0

\* IsLatestCandidate with the comparison of the ids turned round
IsLatestCandidateOther(latest, release) == latest # 0 /\ release.id # latest

\* sync.go:184
IsLatestCandidate(latest, release) == latest # 0 /\ release.id = latest

\* CountFailure without the increment
CountFailureForgotten(n) == n

\* sync.go:175, the counter after a release that could not be created
CountFailure(n) == n + 1

\* sync.go:202 and 210, the counter after an asset that could not be moved
CountAssetFailure(n) == n

\* AfterAssetFailure as a `break`: the other assets of the release are left out
AfterAssetFailureBreak(k, n) == n + 1

\* sync.go:202 and 210, `continue`: the asset loop goes on with the next asset
AfterAssetFailure(k, n) == k + 1

\* the totals taking the counts of the last repository alone
AccumulateLast(total, n) == n

\* sync.go:38-39, 51-52
Accumulate(total, n) == total + n

\* sync.go:66, 82: the number reported as succeeded
Succeeded(total, totalFail) == total - totalFail

\* sync.go:144-151: mapping.AddSourceTimeStamps and mapping.ModifyReleaseBody
\* rewrite the body of the release and nothing else of it
ModifyReleaseBody(r) == [r EXCEPT !.body = "mapped notes"]

\* UploadAssetViaURL never removing the file
ScratchAfterUploadKept(dir, fileName, outcome) == dir

\* api UploadAssetViaURL, part_000:325-332: the file is removed after 201
\* Created and stays after every failure
ScratchAfterUpload(dir, fileName, outcome) ==
    IF outcome = "ok" THEN RemoveFile(dir, fileName) ELSE dir

\* the error of DownloadReleaseAssets not looked at
AfterDownloadUnchecked(k, n, failure) == [pc |-> "upload", ai |-> k]

\* sync.go:198-204: after a failed download the loop continues with the next
\* asset, after a download without error the asset is uploaded
AfterDownload(k, n, failure) ==
    IF failure THEN [pc |-> "asset", ai |-> AfterAssetFailure(k, n)]
    ELSE [pc |-> "upload", ai |-> k]

\* checkVars and the dispatch of SyncReleases: why the process exits, or "ok"
checkVars(c) ==
    IF c.repository /\ c.repositoryList THEN "both"
    ELSE IF c.repository /\ ~c.sourceOrg THEN "noSourceOrg"
    ELSE "ok"

(***************************************************************************)
(* State.                                                                  *)
(***************************************************************************)
VARIABLES
    srcReleases,        \* source host: the releases of the repository, in listing order
    srcLatest,          \* source host: id of the latest release, 0 when there is none
    tgt,                \* target host: tag -> release
    tgtInit,            \* history: the target host before the process started
    tgtLatest,          \* target host: id of the release flagged latest, 0 when none
    scratch,            \* the files of the directory tmp
    cfg,                \* REPOSITORY, REPOSITORY_LIST, SOURCE_ORGANIZATION, the list file
    status,             \* "running", "done", "exit" (os.Exit(1)) or "panic"
    cause,              \* why the process stopped early
    remaining,          \* SyncReleases: repositories still to migrate
    totalReleases,      \* SyncReleases
    totalFailed,        \* SyncReleases
    page,               \* GetSourceRepositoryReleases: opts.Page, 0 before the first request
    pc,                 \* the statement the process is at
    releases,           \* migrateRepositoryReleases: the fetched list
    latestID,
    failed,
    releasesCount,
    newLatestReleaseID,
    ri,                 \* index of `release` in `releases`
    newRelease,
    ai,                 \* index of `asset` in release.Assets
    run,                \* history: calls of migrateRepositoryReleases so far
    faults,             \* history: remote calls that failed so far
    created,            \* history: tag -> releases the target host made for it
    uploaded,           \* history: <<tag, name>> -> assets the target host stored
    hist                \* history of the current call of migrateRepositoryReleases

hostVars == <<srcReleases, srcLatest, cfg, tgtInit>>
driverVars == <<status, cause, remaining, totalReleases, totalFailed>>
localVars == <<releases, latestID, failed, releasesCount, newLatestReleaseID, ri, newRelease, ai>>
vars == <<srcReleases, srcLatest, tgt, tgtInit, tgtLatest, scratch, cfg, status, cause, remaining,
          totalReleases, totalFailed, pc, releases, latestID, failed, releasesCount,
          newLatestReleaseID, ri, newRelease, ai, run, faults, created, uploaded, hist,
          page>>

\* the configurations: every one that stops the process in checkVars or in the
\* dispatch, a single repository, and a repository list that is empty or
\* names the same repository MaxRuns times
Configs ==
    { c \in [repository : BOOLEAN, repositoryList : BOOLEAN, sourceOrg : BOOLEAN,
             listReadable : BOOLEAN, listLen : {0, MaxRuns}] :
        /\ (~c.repositoryList \/ ~c.listReadable) => c.listLen = 0
        /\ ~c.repositoryList => c.listReadable
        /\ (c.repositoryList /\ ~c.repository) => ~c.sourceOrg }

\* the calls of migrateRepositoryReleases a configuration leads to
Runs(c) ==
    IF checkVars(c) # "ok" THEN 0
    ELSE IF c.repositoryList THEN c.listLen
    ELSE IF c.repository THEN 1 ELSE 0

EmptyHist(host, dir) ==
    [calls |-> <<>>, tgtAtStart |-> host, scratchAtStart |-> dir, latest |-> "",
     createCalls |-> 0, downloadCalls |-> 0, uploadCalls |-> 0,
     setLatestCalls |-> 0, setLatestArg |-> 0, marked |-> {}, rlog |-> <<>>]

Init ==
    /\ cfg \in Configs
    /\ \E n \in 0..MaxReleases, a \in 0..MaxAssets :
         /\ (Runs(cfg) = 0 \/ n = 0) => (n = 0 /\ a = 0)
         /\ srcReleases = [i \in 1..n |-> SourceRelease(i, AssetCount(i, a))]
         /\ srcLatest \in {0, IF n > 0 THEN 1 ELSE 0}
         /\ \E first \in InitialTargetReleases :
              /\ n = 0 => first = NilRelease
              /\ tgt = [t \in Tags |-> IF t = "v1" THEN first ELSE NilRelease]
    /\ tgtInit = tgt
    /\ tgtLatest = 0
    /\ scratch = {}
    /\ status = "running"
    /\ cause = ""
    /\ remaining = 0
    /\ totalReleases = 0
    /\ totalFailed = 0
    /\ pc = "checkVars"
    /\ releases = <<>>
    /\ latestID = 0
    /\ failed = 0
    /\ releasesCount = 0
    /\ newLatestReleaseID = 0
    /\ ri = 1
    /\ newRelease = NilRelease
    /\ ai = 1
    /\ run = 0
    /\ faults = 0
    /\ created = [t \in Tags |-> 0]
    /\ uploaded = [k \in Tags \X Names |-> 0]
    /\ hist = EmptyHist(tgt, scratch)
    /\ page = 0

\* the outcomes the network can give a remote call: "ok", or one of `bad`
\* while the behaviour has failures left
Outcomes(bad) == {"ok"} \cup (IF faults < MaxFaults THEN bad ELSE {})
Charge(o) == IF o = "ok" THEN faults ELSE faults + 1

Abort(how, why) ==
    /\ status' = how
    /\ cause' = why
    /\ pc' = "halt"

(***************************************************************************)
(* SyncReleases                                                            *)
(***************************************************************************)
\* sync.go:18, 89-98
CheckVars ==
    /\ pc = "checkVars"
    /\ IF checkVars(cfg) # "ok"
       THEN Abort("exit", checkVars(cfg))
       ELSE pc' = "dispatch" /\ UNCHANGED <<status, cause>>
    /\ UNCHANGED <<hostVars, page, tgt, tgtLatest, scratch, remaining, totalReleases, totalFailed,
                   localVars, run, faults, created, uploaded, hist>>

\* sync.go:22-57: the repository list is read, or the one repository taken
Dispatch ==
    /\ pc = "dispatch"
    /\ IF cfg.repositoryList
       THEN IF ~cfg.listReadable
            THEN Abort("exit", "listFile") /\ UNCHANGED remaining
            ELSE remaining' = cfg.listLen /\ pc' = "nextRepo" /\ UNCHANGED <<status, cause>>
       ELSE IF cfg.repository
            THEN remaining' = 1 /\ pc' = "nextRepo" /\ UNCHANGED <<status, cause>>
            ELSE Abort("exit", "noRepository") /\ UNCHANGED remaining
    /\ UNCHANGED <<hostVars, page, tgt, tgtLatest, scratch, totalReleases, totalFailed,
                   localVars, run, faults, created, uploaded, hist>>

\* sync.go:31-33, 46 and 100-111: the next call of migrateRepositoryReleases
NextRepository ==
    /\ pc = "nextRepo"
    /\ remaining > 0
    /\ pc' = "list"
    /\ run' = run + 1
    /\ releases' = <<>>
    /\ latestID' = 0
    /\ failed' = 0
    /\ releasesCount' = 0
    /\ newLatestReleaseID' = 0
    /\ ri' = 1
    /\ newRelease' = NilRelease
    /\ ai' = 1
    /\ hist' = [EmptyHist(tgt, scratch) EXCEPT
                   !.calls = Append(hist.calls, [entry |-> Runs(cfg) - remaining + 1,
                                                 seen |-> 0, failed |-> 0,
                                                 returned |-> "none"])]
    /\ UNCHANGED <<hostVars, page, tgt, tgtLatest, scratch, driverVars, faults, created, uploaded>>

\* sync.go:59-85: the totals are reported
Summary ==
    /\ pc = "nextRepo"
    /\ remaining = 0
    /\ status' = "done"
    /\ pc' = "halt"
    /\ UNCHANGED <<hostVars, page, tgt, tgtLatest, scratch, cause, remaining, totalReleases,
                   totalFailed, localVars, run, faults, created, uploaded, hist>>

\* sync.go:230-238 and 33-39, 46-52: the call returns and the totals grow
Return ==
    /\ pc = "return"
    /\ totalReleases' = Accumulate(totalReleases, releasesCount)
    /\ totalFailed' = Accumulate(totalFailed, failed)
    /\ remaining' = remaining - 1
    /\ hist' = [hist EXCEPT !.calls[Len(hist.calls)] =
                    [@ EXCEPT !.seen = releasesCount, !.failed = failed,
                              !.returned = IF failed > 0 THEN "error" ELSE "nil"]]
    /\ pc' = "nextRepo"
    /\ UNCHANGED <<hostVars, page, tgt, tgtLatest, scratch, status, cause, localVars, run, faults,
                   created, uploaded>>

(***************************************************************************)
(* migrateRepositoryReleases                                               *)
(***************************************************************************)
\* sync.go:113-118 and api GetSourceRepositoryReleases: one request of the
\* loop.  A page is appended and the loop goes on with the page the answer
\* names, or ends when it names none; a failed request returns what was
\* appended so far with an error, which sync.go reports with pterm.Fatal,
\* which panics
ListReleases ==
    /\ pc = "list"
    /\ \E o \in Outcomes({"fault"}) :
         /\ faults' = Charge(o)
         /\ IF o = "ok"
            THEN LET resp == HostListReleases(srcReleases, page)
                 IN  /\ releases' = AppendPage(releases, resp.releases)
                     /\ IF resp.nextPage = 0
                        THEN page' = 0 /\ pc' = "latest"
                        ELSE page' = resp.nextPage /\ pc' = "list"
                     /\ UNCHANGED <<status, cause>>
            ELSE /\ UNCHANGED <<releases, page>>
                 /\ Abort("panic", "listReleases")
    /\ UNCHANGED <<hostVars, tgt, tgtLatest, scratch, remaining, totalReleases, totalFailed,
                   latestID, failed, releasesCount, newLatestReleaseID, ri, newRelease, ai,
                   run, created, uploaded, hist>>

\* sync.go:120-136 and api GetSourceRepositoryLatestRelease: the host has a
\* latest release, or answers 404 when it has none ("notFound"), or answers
\* with another failing status ("status"), or the request fails in the
\* transport; that leaves resp nil, and resp.StatusCode then panics
LatestRelease ==
    /\ pc = "latest"
    /\ \E o \in Outcomes({"status", "transport"}) :
         /\ faults' = Charge(o)
         /\ hist' = [hist EXCEPT !.latest = IF o = "transport" THEN "noResponse"
                                            ELSE IF o = "ok" /\ srcLatest # 0 THEN "found"
                                            ELSE "error"]
         /\ IF o = "transport"
            THEN Abort("panic", "latestRelease") /\ UNCHANGED <<latestID, releasesCount>>
            ELSE /\ latestID' = IF o = "ok" /\ srcLatest # 0 THEN srcLatest ELSE 0
                 /\ releasesCount' = Len(releases)
                 /\ pc' = "loop"
                 /\ UNCHANGED <<status, cause>>
    /\ UNCHANGED <<hostVars, page, tgt, tgtLatest, scratch, remaining, totalReleases, totalFailed,
                   releases, failed, newLatestReleaseID, ri, newRelease, ai,
                   run, created, uploaded>>

\* sync.go:139-151: the release of the iteration, its body rewritten
release == ModifyReleaseBody(releases[ri])
asset == release.assets[ai]

\* a release found on the target is created all the same
WithTargetCreated(r) ==
    /\ newRelease' = r
    /\ newLatestReleaseID' =
         IF IsLatestCandidate(latestID, release) THEN r.id ELSE newLatestReleaseID
    /\ ai' = 1
    /\ pc' = "create"

\* sync.go:183-189: the target release is known; the latest candidate is taken
\* and the asset loop begins
WithTarget(r) ==
    /\ newRelease' = r
    /\ newLatestReleaseID' =
         IF IsLatestCandidate(latestID, release) THEN r.id ELSE newLatestReleaseID
    /\ ai' = 1
    /\ pc' = "asset"

\* the release loop stepping over the release that follows
NextReleaseSkipping ==
    /\ ri' = ri + 2
    /\ pc' = "loop"

\* `continue` of the release loop
NextRelease ==
    /\ ri' = ri + 1
    /\ pc' = "loop"

\* sync.go:139-161: the next release; its body is rewritten (the rewriting is
\* opaque and touches the body only) and the target is asked for its tag
CheckRelease ==
    /\ pc = "loop"
    /\ ri <= Len(releases)
    /\ \E o \in Outcomes({"fault"}) :
         LET found == ReleaseExists(tgt, release, o)
             entry == [tag |-> release.tag, hostHad |-> tgt[release.tag], lookup |-> o,
                       exists |-> found.exists, create |-> "none", refetch |-> "none",
                       target |-> IF found.exists THEN found.existing.id ELSE 0,
                       assetLoop |-> found.exists, assets |-> <<>>]
         IN  /\ faults' = Charge(o)
             /\ hist' = [hist EXCEPT !.rlog = Append(@, entry)]
             /\ IF found.exists
                THEN WithTarget(found.existing)
                ELSE /\ pc' = "create"
                     /\ UNCHANGED <<newRelease, newLatestReleaseID, ai>>
    /\ UNCHANGED <<hostVars, page, tgt, tgtLatest, scratch, driverVars, releases, latestID, failed,
                   releasesCount, ri, run, created, uploaded>>

\* sync.go:162-181 and api CreateRelease
Create ==
    /\ pc = "create"
    /\ \E o \in Outcomes({"fault", "lost"}) :
         LET r == CreateRelease(tgt, release, o)
             made == r.host # tgt
             answer == HostCreateRelease(tgt, release, o).err
             said == IF answer = NoErr THEN "ok"
                     ELSE IF answer = ErrValidation THEN "conflict" ELSE "error"
         IN  /\ faults' = Charge(o)
             /\ tgt' = r.host
             /\ created' = IF made THEN [created EXCEPT ![release.tag] = @ + 1] ELSE created
             /\ IF r.err = NoErr
                THEN /\ hist' = [hist EXCEPT !.createCalls = @ + 1,
                                            !.rlog[ri].create = said,
                                            !.rlog[ri].target = r.release.id,
                                            !.rlog[ri].assetLoop = TRUE]
                     /\ WithTarget(r.release)
                     /\ UNCHANGED <<failed, ri>>
                ELSE IF IsConflict(r.err)
                THEN /\ hist' = [hist EXCEPT !.createCalls = @ + 1,
                                            !.rlog[ri].create = said]
                     /\ pc' = "refetch"
                     /\ UNCHANGED <<failed, ri, newRelease, newLatestReleaseID, ai>>
                ELSE /\ hist' = [hist EXCEPT !.createCalls = @ + 1,
                                            !.rlog[ri].create = said]
                     /\ failed' = CountFailure(failed)
                     /\ NextRelease
                     /\ UNCHANGED <<newRelease, newLatestReleaseID, ai>>
    /\ UNCHANGED <<hostVars, page, tgtLatest, scratch, driverVars, releases, latestID,
                   releasesCount, run, uploaded>>

\* sync.go:166-173: after a conflict the release is fetched by its tag
Refetch ==
    /\ pc = "refetch"
    /\ \E o \in Outcomes({"fault"}) :
         LET got == GetReleaseByTag(tgt, release.tag, o)
         IN  /\ faults' = Charge(o)
             /\ IF got.err # NoErr
                THEN /\ hist' = [hist EXCEPT !.rlog[ri].refetch = "error"]
                     /\ NextRelease
                     /\ UNCHANGED <<newRelease, newLatestReleaseID, ai>>
                ELSE /\ hist' = [hist EXCEPT !.rlog[ri].refetch = "ok",
                                            !.rlog[ri].target = got.release.id,
                                            !.rlog[ri].assetLoop = TRUE]
                     /\ WithTarget(got.release)
                     /\ UNCHANGED ri
    /\ UNCHANGED <<hostVars, page, tgt, tgtLatest, scratch, driverVars, releases, latestID, failed,
                   releasesCount, run, created, uploaded>>

\* sync.go:189-196: the next asset, and whether the target release has it
CheckAsset ==
    /\ pc = "asset"
    /\ ai <= Len(release.assets)
    /\ LET exists == AssetExists(newRelease, asset.name, asset.size)
           entry == [name |-> asset.name, size |-> asset.size,
                     held |-> [name |-> asset.name, size |-> asset.size]
                                \in tgt[newRelease.tag].assets,
                     sameName |-> \E e \in tgt[newRelease.tag].assets :
                                     e.name = asset.name,
                     exists |-> exists, download |-> "none", upload |-> "none",
                     sent |-> 0, onDisk |-> FALSE]
       IN  /\ hist' = [hist EXCEPT !.rlog[ri].assets = Append(@, entry)]
           /\ IF exists
              THEN ai' = ai + 1 /\ pc' = "asset"
              ELSE pc' = "download" /\ UNCHANGED ai
    /\ UNCHANGED <<hostVars, page, tgt, tgtLatest, scratch, driverVars, releases, latestID, failed,
                   releasesCount, newLatestReleaseID, ri, newRelease, run, faults, created,
                   uploaded>>

\* sync.go:189, 213: the assets of the release are done
AssetsDone ==
    /\ pc = "asset"
    /\ ai > Len(release.assets)
    /\ NextRelease
    /\ UNCHANGED <<hostVars, page, tgt, tgtLatest, scratch, driverVars, releases, latestID, failed,
                   releasesCount, newLatestReleaseID, newRelease, ai, run, faults, created,
                   uploaded, hist>>

\* sync.go:198-203 and api DownloadReleaseAssets, DownloadFileFromURL: os.Create
\* empties the file tmp/<name>; a failed request or copy ("fault") leaves it
\* short; when the directory or the file cannot be made ("nofile") the
\* directory stays as it is
Download ==
    /\ pc = "download"
    /\ \E o \in Outcomes({"fault", "nofile"}) :
         /\ faults' = Charge(o)
         /\ pc' = AfterDownload(ai, Len(release.assets), o # "ok").pc
         /\ ai' = AfterDownload(ai, Len(release.assets), o # "ok").ai
         /\ IF o = "ok"
            THEN /\ scratch' = WriteFile(scratch, asset.name, asset.size)
                 /\ hist' = [hist EXCEPT !.downloadCalls = @ + 1,
                                        !.rlog[ri].assets[ai].download = "ok"]
                 /\ UNCHANGED failed
            ELSE /\ scratch' = IF o = "nofile" THEN scratch
                                ELSE WriteFile(scratch, asset.name, 0)
                 /\ hist' = [hist EXCEPT !.downloadCalls = @ + 1,
                                        !.rlog[ri].assets[ai].download = "err",
                                        !.rlog[ri].assets[ai].onDisk =
                                            HasFile(scratch', asset.name)]
                 /\ failed' = CountAssetFailure(failed)
    /\ UNCHANGED <<hostVars, page, tgt, tgtLatest, driverVars, releases, latestID,
                   releasesCount, newLatestReleaseID, ri, newRelease, run, created, uploaded>>

\* sync.go:204-211 and api UploadAssetViaURL: the file tmp/<name> is opened
\* ("nofile" when it is not there) and posted to the release with its length
\* on disk; on 201 Created it is removed.  "lost": the host stored the asset and the
\* call still failed (the response, or the removal of the file).  "refused":
\* the host refuses a name the release already has; the source does not say
\* which of the two the host does, so both are possible.
Upload ==
    /\ pc = "upload"
    /\ LET tag == newRelease.tag
           taken == \E e \in tgt[tag].assets : e.name = asset.name
           opened == HasFile(scratch, asset.name)
           stored == [name |-> asset.name, size |-> FileSize(scratch, asset.name)]
       IN  \E o \in IF ~opened THEN {"nofile"}
                    ELSE Outcomes({"fault"} \cup (IF taken THEN {} ELSE {"lost"}))
                             \cup (IF taken THEN {"refused"} ELSE {}) :
             /\ faults' = IF o \in {"refused", "nofile"} THEN faults ELSE Charge(o)
             /\ IF o \in {"ok", "lost"}
                THEN /\ tgt' = [tgt EXCEPT ![tag].assets = @ \cup {stored}]
                     /\ uploaded' = [uploaded EXCEPT ![<<tag, asset.name>>] = @ + 1]
                ELSE UNCHANGED <<tgt, uploaded>>
             /\ scratch' = ScratchAfterUpload(scratch, asset.name, o)
             /\ IF o = "ok"
                THEN /\ hist' = [hist EXCEPT !.uploadCalls = @ + 1,
                                            !.rlog[ri].assets[ai].upload = "ok",
                                            !.rlog[ri].assets[ai].sent = stored.size,
                                            !.rlog[ri].assets[ai].onDisk =
                                                HasFile(scratch', asset.name)]
                     /\ ai' = ai + 1
                     /\ UNCHANGED failed
                ELSE /\ hist' = [hist EXCEPT !.uploadCalls = @ + 1,
                                            !.rlog[ri].assets[ai].upload = "err",
                                            !.rlog[ri].assets[ai].sent =
                                                IF opened THEN stored.size ELSE 0,
                                            !.rlog[ri].assets[ai].onDisk =
                                                HasFile(scratch', asset.name)]
                     /\ failed' = CountAssetFailure(failed)
                     /\ ai' = AfterAssetFailure(ai, Len(release.assets))
             /\ pc' = "asset"
    /\ UNCHANGED <<hostVars, page, tgtLatest, driverVars, releases, latestID,
                   releasesCount, newLatestReleaseID, ri, newRelease, run, created>>

\* sync.go:215-225 and api SetLatestRelease
SetLatest ==
    /\ pc = "loop"
    /\ ri > Len(releases)
    /\ newLatestReleaseID # 0
    /\ \E o \in Outcomes({"fault"}) :
         /\ faults' = Charge(o)
         /\ tgtLatest' = IF o = "ok" THEN newLatestReleaseID ELSE tgtLatest
         /\ hist' = [hist EXCEPT !.setLatestCalls = @ + 1,
                                !.setLatestArg = newLatestReleaseID,
                                !.marked = IF o = "ok" THEN @ \cup {newLatestReleaseID} ELSE @]
    /\ pc' = "return"
    /\ UNCHANGED <<hostVars, page, tgt, scratch, driverVars, localVars, run, created, uploaded>>

\* sync.go:226-228: there is no candidate, nothing is marked
NoLatest ==
    /\ pc = "loop"
    /\ ri > Len(releases)
    /\ newLatestReleaseID = 0
    /\ pc' = "return"
    /\ UNCHANGED <<hostVars, page, tgt, tgtLatest, scratch, driverVars, localVars, run, faults,
                   created, uploaded, hist>>

Next ==
    \/ CheckVars
    \/ Dispatch
    \/ NextRepository
    \/ Summary
    \/ Return
    \/ ListReleases
    \/ LatestRelease
    \/ CheckRelease
    \/ Create
    \/ Refetch
    \/ CheckAsset
    \/ AssetsDone
    \/ Download
    \/ Upload
    \/ SetLatest
    \/ NoLatest

Spec == Init /\ [][Next]_vars

(***************************************************************************)
(* The claims.  A call of migrateRepositoryReleases has ended when pc is   *)
(* "return"; hist then tells what the call did.                            *)
(***************************************************************************)
Ended == pc = "return"
Logged == 1..Len(hist.rlog)
TargetEmptyAtFirst == \A t \in Tags : tgtInit[t] = NilRelease

\* the releases whose createRelease failed with an error that is no conflict
CreateFailed == {i \in Logged : hist.rlog[i].create = "error"}
\* the releases whose createRelease met a conflict and whose re-fetch failed
RefetchFailed == {i \in Logged : hist.rlog[i].create = "conflict" /\ hist.rlog[i].refetch = "error"}
\* the releases the source reported as latest and for which a target release was obtained
LatestObtained ==
    {i \in Logged : latestID # 0 /\ releases[i].id = latestID /\ hist.rlog[i].target # 0}

\* C1: idempotency.  With an empty target at first and no failing remote call,
\* a second (or later) run of migrateRepositoryReleases on the same source
\* finds every release by ReleaseExists and every asset by AssetExists, issues
\* no createRelease, no download and no upload, and leaves the target's
\* releases and assets as the run before left them.
C1_Idempotent ==
    (Ended /\ run >= 2 /\ faults = 0 /\ TargetEmptyAtFirst) =>
        /\ hist.createCalls = 0
        /\ hist.downloadCalls = 0
        /\ hist.uploadCalls = 0
        /\ tgt = hist.tgtAtStart
        /\ Len(hist.rlog) = Len(srcReleases)
        /\ \A i \in Logged :
             /\ hist.rlog[i].exists
             /\ Len(hist.rlog[i].assets) = Len(srcReleases[i].assets)
             /\ \A k \in 1..Len(hist.rlog[i].assets) : hist.rlog[i].assets[k].exists

C1_Witness ==
    /\ Ended /\ run = 2 /\ faults = 0 /\ TargetEmptyAtFirst
    /\ Len(srcReleases) >= 2
    /\ Len(srcReleases[1].assets) >= 2
    /\ \A t \in Tags : tgt[t] # NilRelease
    /\ Cardinality(tgt["v1"].assets) >= 2

\* C2: exactly once.  Over all runs against the same target and whatever
\* remote calls fail, the target host makes at most one release for each tag
\* and stores each asset of a release at most once.
C2_ExactlyOnce ==
    /\ \A t \in Tags : created[t] <= 1
    /\ \A k \in Tags \X Names : uploaded[k] <= 1

C2_Witness ==
    /\ Ended /\ run = 2 /\ faults > 0
    /\ created["v1"] = 1
    /\ uploaded[<<"v1", "a.zip">>] = 1
    /\ hist.rlog # <<>> /\ hist.rlog[1].exists
    /\ hist.rlog[1].assets # <<>> /\ hist.rlog[1].assets[1].exists

\* C3 as stated: when the source has a latest release X, the run issues exactly
\* one SetLatestRelease, for the target release of X; when it has none, the
\* run issues no SetLatestRelease.
C3_AsStated ==
    Ended =>
        IF srcLatest # 0
        THEN /\ hist.setLatestCalls = 1
             /\ \E i \in Logged : /\ releases[i].id = srcLatest
                                  /\ hist.rlog[i].target # 0
                                  /\ hist.setLatestArg = hist.rlog[i].target
        ELSE hist.setLatestCalls = 0

\* C3, amended: when GetSourceRepositoryLatestRelease returned X and a target
\* release was obtained for X, the run issues exactly one SetLatestRelease, for
\* that target release; when no latest release was returned, or no target
\* release was obtained for X, the run issues no SetLatestRelease.
C3_LatestTracking ==
    Ended =>
        IF LatestObtained # {}
        THEN /\ hist.setLatestCalls = 1
             /\ \A i \in LatestObtained : hist.setLatestArg = hist.rlog[i].target
        ELSE hist.setLatestCalls = 0

C3_Witness ==
    /\ Ended
    /\ Len(releases) >= 2
    /\ LatestObtained = {1}
    /\ hist.rlog[2].target # 0
    /\ hist.setLatestCalls = 1
    /\ hist.setLatestArg = TargetID("v1")

\* C4: at most one latest.  In every run, whatever fails, at most one target
\* release is marked latest, and only the target release obtained for the
\* source release whose id GetSourceRepositoryLatestRelease returned.
C4_AtMostOneLatest ==
    /\ Cardinality(hist.marked) <= 1
    /\ \A m \in hist.marked : \E i \in LatestObtained : hist.rlog[i].target = m
    /\ \A m \in hist.marked : tgtLatest = m

C4_Witness ==
    /\ Ended /\ faults > 0
    /\ Len(releases) >= 2
    /\ hist.marked = {TargetID("v1")}
    /\ tgtLatest = TargetID("v1")
    /\ hist.rlog[2].target # 0

\* C5 as stated: with F the releases whose createRelease failed with an error
\* that is no conflict, every listed release is attempted, the asset loop is
\* left out for the releases of F and for no other, and the run returns
\* releasesSeen = N and releasesFailed = |F|.
C5_AsStated ==
    Ended =>
        /\ Len(hist.rlog) = Len(srcReleases)
        /\ \A i \in Logged : ~hist.rlog[i].assetLoop <=> i \in CreateFailed
        /\ releasesCount = Len(srcReleases)
        /\ failed = Cardinality(CreateFailed)

\* C5, amended: every listed release is attempted; the asset loop is left out
\* for the releases of F and, besides them, only for the releases whose
\* createRelease met a conflict and whose re-fetch by tag failed; the run
\* returns releasesSeen = N and releasesFailed = |F|.
C5_PartialFailure ==
    Ended =>
        /\ Len(hist.rlog) = Len(srcReleases)
        /\ \A i \in Logged :
             ~hist.rlog[i].assetLoop <=> i \in (CreateFailed \cup RefetchFailed)
        /\ \A i \in Logged :
             hist.rlog[i].assetLoop =>
                 Len(hist.rlog[i].assets) = Len(srcReleases[i].assets)
        /\ \A i \in CreateFailed \cup RefetchFailed : hist.rlog[i].assets = <<>>
        /\ releasesCount = Len(srcReleases)
        /\ failed = Cardinality(CreateFailed)

C5_Witness ==
    /\ Ended
    /\ Len(srcReleases) >= 2
    /\ CreateFailed = {1}
    /\ failed = 1
    /\ releasesCount = Len(srcReleases)
    /\ hist.rlog[2].assetLoop
    /\ hist.rlog[2].assets # <<>>

\* C6 as stated: after a createRelease that met a conflict the engine has
\* re-fetched the release by its tag, uses it as the target release for the
\* latest candidate and for the assets, and has not counted a failure.
C6_AsStated ==
    Ended =>
        /\ \A i \in Logged :
             hist.rlog[i].create = "conflict" =>
                 /\ hist.rlog[i].target = TargetID(releases[i].tag)
                 /\ hist.rlog[i].assetLoop
        /\ failed = Cardinality(CreateFailed)

\* C6, amended: after a createRelease that met a conflict the engine re-fetches
\* the release by its tag; when the re-fetch returns the release, that release
\* is the target release for the latest candidate and for the assets; when the
\* re-fetch fails, the release is left without target release and without
\* asset transfer; in neither case is a failure counted.
C6_ConflictReuse ==
    Ended =>
        /\ \A i \in Logged :
             hist.rlog[i].create = "conflict" =>
                 /\ hist.rlog[i].refetch \in {"ok", "error"}
                 /\ hist.rlog[i].refetch = "ok" =>
                      /\ hist.rlog[i].target = hist.rlog[i].hostHad.id
                      /\ hist.rlog[i].target # 0
                      /\ hist.rlog[i].assetLoop
                      /\ Len(hist.rlog[i].assets) = Len(releases[i].assets)
                      /\ (latestID # 0 /\ releases[i].id = latestID) =>
                             /\ hist.setLatestCalls = 1
                             /\ hist.setLatestArg = hist.rlog[i].target
                 /\ hist.rlog[i].refetch = "error" =>
                      /\ hist.rlog[i].target = 0
                      /\ ~hist.rlog[i].assetLoop
        /\ failed = Cardinality(CreateFailed)

C6_Witness ==
    /\ Ended
    /\ hist.rlog # <<>>
    /\ hist.rlog[1].create = "conflict"
    /\ hist.rlog[1].refetch = "ok"
    /\ hist.rlog[1].assets # <<>>
    /\ hist.setLatestCalls = 1
    /\ hist.setLatestArg = hist.rlog[1].target
    /\ failed = 0

\* C7: only a configuration failure ends the process early: both a repository
\* and a repository list, a repository without source organization, neither
\* of the two, or a repository list that cannot be read.
C7_OnlyConfigurationAborts ==
    status \in {"exit", "panic"} =>
        cause \in {"both", "noSourceOrg", "noRepository", "listFile"}

\* C8: asset failure isolation.  For every release with a target release, a
\* failed download or upload of an asset counts no release failure, and every
\* asset of the release and every later release is still processed.
C8_AssetFailureIsolated ==
    Ended =>
        /\ Len(hist.rlog) = Len(releases)
        /\ \A i \in Logged :
             hist.rlog[i].target # 0 =>
                 /\ Len(hist.rlog[i].assets) = Len(releases[i].assets)
                 /\ \A k \in 1..Len(hist.rlog[i].assets) :
                      hist.rlog[i].assets[k].name = releases[i].assets[k].name
        /\ failed = Cardinality(CreateFailed)

AssetFailedAt(i, k) ==
    \/ hist.rlog[i].assets[k].download = "err"
    \/ hist.rlog[i].assets[k].upload = "err"

C8_Witness ==
    /\ Ended
    /\ Len(releases) >= 2
    /\ Len(hist.rlog[1].assets) >= 2
    /\ AssetFailedAt(1, 1)
    /\ hist.rlog[1].assets[2].upload = "ok"
    /\ hist.rlog[2].assets # <<>>
    /\ failed = 0

\* C9: asset dedup by name and size.  A source asset whose name and size the
\* target release holds when the asset is looked at is neither downloaded nor
\* uploaded; one the target release does not hold under that name and size is
\* downloaded, and uploaded when the download succeeded.
C9_AssetDedup ==
    \A i \in Logged : \A k \in 1..Len(hist.rlog[i].assets) :
        LET e == hist.rlog[i].assets[k]
            current == i = ri /\ k = ai /\ pc \in {"download", "upload"}
        IN  /\ e.held => (e.download = "none" /\ e.upload = "none")
            /\ (~e.held /\ ~current) =>
                   /\ e.download \in {"ok", "err"}
                   /\ e.download = "ok" <=> e.upload \in {"ok", "err"}
            /\ (~e.held /\ current /\ pc = "upload") => e.download = "ok"

C9_Witness ==
    /\ Ended
    /\ hist.rlog # <<>>
    /\ Len(hist.rlog[1].assets) >= 2
    /\ hist.rlog[1].assets[1].held
    /\ hist.rlog[1].assets[1].download = "none"
    /\ hist.rlog[1].assets[2].sameName
    /\ ~hist.rlog[1].assets[2].held
    /\ hist.rlog[1].assets[2].download = "ok"
    /\ hist.rlog[1].assets[2].upload \in {"ok", "err"}

\* C10: release matching.  ReleaseExists reports a match exactly when the
\* target holds a release under the source's tag, the lookup returned it, and
\* its name and its commit reference equal the source's; the engine then takes
\* that release as the target release, calls no createRelease for it and
\* counts no failure.
C10_ReleaseMatching ==
    /\ \A i \in Logged :
         LET e == hist.rlog[i]
         IN  /\ e.exists <=> /\ e.lookup = "ok"
                             /\ e.hostHad # NilRelease
                             /\ e.hostHad.tag = releases[i].tag
                             /\ e.hostHad.name = releases[i].name
                             /\ e.hostHad.commitish = releases[i].commitish
             /\ e.exists => /\ e.target = e.hostHad.id
                            /\ e.create = "none"
                            /\ e.refetch = "none"
                            /\ e.assetLoop
                            /\ (i < ri \/ pc \in {"asset", "download", "upload"})
             /\ (e.exists /\ i = ri /\ pc \in {"asset", "download", "upload"}) =>
                    newRelease = e.hostHad
    /\ failed = Cardinality(CreateFailed)

C10_Witness ==
    /\ Ended
    /\ Len(hist.rlog) >= 2
    /\ hist.rlog[1].exists
    /\ hist.rlog[1].hostHad.name = "A"
    /\ ~hist.rlog[2].exists
    /\ hist.rlog[2].create = "ok"
    /\ hist.createCalls = 1
    /\ failed = 0

\* the assets logged, as (release, asset) positions of the log
Positions == UNION {{<<i, k>> : k \in DOMAIN hist.rlog[i].assets} : i \in Logged}
\* the assets whose upload was called
Uploads == {p \in Positions : hist.rlog[p[1]].assets[p[2]].upload # "none"}

\* C11: scratch cleanup.  Right after an UploadAssetViaURL that succeeded the
\* file tmp/<assetName> is no longer in the scratch directory; right after
\* one that failed the file is still there.  (onDisk is what the directory
\* held right after the call; the log of a run is read at its end.)
C11_ScratchCleanup ==
    Ended => \A i \in Logged : \A k \in DOMAIN hist.rlog[i].assets :
        LET a == hist.rlog[i].assets[k]
        IN  /\ a.upload = "ok" => ~a.onDisk
            /\ a.upload = "err" => a.onDisk

C11_Witness ==
    /\ Ended
    /\ \E p \in Uploads : /\ hist.rlog[p[1]].assets[p[2]].upload = "ok"
                          /\ ~HasFile(scratch, hist.rlog[p[1]].assets[p[2]].name)
    /\ \E p \in Uploads : /\ hist.rlog[p[1]].assets[p[2]].upload = "err"
                          /\ HasFile(scratch, hist.rlog[p[1]].assets[p[2]].name)

\* the assets of this run whose download or upload was called
Transfers == {p \in Positions : hist.rlog[p[1]].assets[p[2]].download # "none"}
\* a download or an upload of an asset of the name failed in this run
FailedName(fileName) ==
    \E i \in Logged : \E k \in DOMAIN hist.rlog[i].assets :
        /\ hist.rlog[i].assets[k].name = fileName
        /\ \/ hist.rlog[i].assets[k].download = "err"
           \/ hist.rlog[i].assets[k].upload = "err"
\* the names of the assets of this run whose download or upload failed
FailedNames == {fileName \in Names : FailedName(fileName)}
\* the name of the asset that is downloaded and waits for its upload
InTransfer == IF pc = "upload" THEN {asset.name} ELSE {}
FileNames(dir) == {f.name : f \in dir}

\* C12 as stated: in every reachable state, whatever downloads and uploads
\* fail, the scratch directory holds at most one asset file.
C12_AsStated == Cardinality(scratch) <= 1

\* C12, amended: in every reachable state the scratch directory holds one
\* file for a name at most, and every file in it is the file of the asset in
\* transfer, or was left by a download or an upload of this run that failed,
\* or was there when the run began; so a run that began with an empty
\* directory and has had no failed download or upload holds at most one file.
C12_ScratchOccupancy ==
    /\ \A f, g \in scratch : f.name = g.name => f = g
    /\ \A f \in scratch : \/ f.name \in InTransfer
                          \/ FailedName(f.name)
                          \/ f.name \in FileNames(hist.scratchAtStart)
    /\ Cardinality(scratch) > 1 => (hist.scratchAtStart # {} \/ FailedNames # {})

C12_Witness ==
    /\ pc = "upload"
    /\ hist.scratchAtStart = {}
    /\ Cardinality(scratch) = 2
    /\ Cardinality(FailedNames) = 1
    /\ asset.name \notin FailedNames

\* the logged asset a of a release is done with: it was found on the target,
\* or its download failed, or its upload was called
AssetDone(a) == a.exists \/ a.download = "err" \/ a.upload # "none"
\* the logged release i is done with: it has no target release, or all its
\* assets are done with
ReleaseDone(i) ==
    IF hist.rlog[i].assetLoop
    THEN /\ Len(hist.rlog[i].assets) = Len(releases[i].assets)
         /\ \A k \in 1..Len(hist.rlog[i].assets) : AssetDone(hist.rlog[i].assets[k])
    ELSE i \in CreateFailed \cup RefetchFailed

\* the releases logged are the first listed ones, in the order of the listing,
\* and the assets logged of each are its first listed ones, in order
InListingOrder ==
    /\ Len(hist.rlog) <= Len(releases)
    /\ \A i \in Logged :
         /\ hist.rlog[i].tag = releases[i].tag
         /\ Len(hist.rlog[i].assets) <= Len(releases[i].assets)
         /\ \A k \in DOMAIN hist.rlog[i].assets :
              hist.rlog[i].assets[k].name = releases[i].assets[k].name
         /\ hist.rlog[i].assets # <<>> => hist.rlog[i].target # 0

\* C13: processing order.  The releases are processed once each and in the
\* order of the listing, a release is begun only when the ones before it are
\* done with; the assets of a release are processed in their order, one at a
\* time, and none before the target lookup and creation of the release have
\* given its target release; SetLatestRelease is called only when every
\* listed release is done with; and at the end of the run every listed
\* release has been processed.
C13_ProcessingOrder ==
    /\ Len(hist.rlog) <= Len(releases)
    /\ hist.setLatestCalls <= 1
    /\ pc = "loop" =>
         /\ Len(hist.rlog) = ri - 1
         /\ InListingOrder
         /\ \A i \in Logged : ReleaseDone(i)
    /\ pc \in {"create", "refetch"} =>
         /\ Len(hist.rlog) = ri
         /\ hist.rlog[ri].tag = releases[ri].tag
         /\ hist.rlog[ri].target = 0
         /\ hist.rlog[ri].assets = <<>>
    /\ pc \in {"asset", "download", "upload"} =>
         /\ Len(hist.rlog) = ri
         /\ hist.rlog[ri].tag = releases[ri].tag
         /\ hist.rlog[ri].target # 0
         /\ Len(hist.rlog[ri].assets) = (IF pc = "asset" THEN ai - 1 ELSE ai)
         /\ \A k \in DOMAIN hist.rlog[ri].assets :
              /\ hist.rlog[ri].assets[k].name = releases[ri].assets[k].name
              /\ (pc = "asset" \/ k < ai) => AssetDone(hist.rlog[ri].assets[k])
    /\ (hist.setLatestCalls > 0 \/ Ended) =>
         /\ Len(hist.rlog) = Len(releases)
         /\ InListingOrder
         /\ \A i \in Logged : ReleaseDone(i)

C13_Witness ==
    /\ Ended
    /\ hist.setLatestCalls = 1
    /\ Len(hist.rlog) >= 2
    /\ hist.rlog[1].tag = "v1" /\ hist.rlog[2].tag = "v2"
    /\ Len(hist.rlog[1].assets) >= 2
    /\ hist.rlog[1].assets[1].name = "a.zip" /\ hist.rlog[1].assets[1].upload = "ok"
    /\ hist.rlog[1].assets[2].name = "b.zip" /\ hist.rlog[1].assets[2].upload = "ok"
    /\ hist.rlog[2].create = "ok"

\* the logged releases for which createRelease was called
Creations == {i \in Logged : hist.rlog[i].create # "none"}

\* C14: existence check before every write.  Every createRelease call for a
\* source release comes after a lookup of that release's tag on the target,
\* in the same iteration, that reported no match; every download and every
\* upload of an asset comes after an AssetExists check of that asset on the
\* target release, in the same iteration, that returned false.
C14_CheckBeforeWrite ==
    /\ pc \in {"create", "refetch"} =>
         /\ Len(hist.rlog) = ri
         /\ hist.rlog[ri].tag = release.tag
         /\ ~hist.rlog[ri].exists
    /\ pc \in {"download", "upload"} =>
         /\ Len(hist.rlog) = ri /\ Len(hist.rlog[ri].assets) = ai
         /\ hist.rlog[ri].assets[ai].name = asset.name
         /\ ~hist.rlog[ri].assets[ai].exists
         /\ ~AssetExists(newRelease, asset.name, asset.size)
    /\ Ended =>
         /\ hist.createCalls = Cardinality(Creations)
         /\ hist.downloadCalls = Cardinality(Transfers)
         /\ hist.uploadCalls = Cardinality(Uploads)
         /\ \A i \in Logged :
              /\ hist.rlog[i].create # "none" =>
                   (hist.rlog[i].tag = releases[i].tag /\ ~hist.rlog[i].exists)
              /\ \A k \in DOMAIN hist.rlog[i].assets :
                   LET a == hist.rlog[i].assets[k]
                   IN  (a.download # "none" \/ a.upload # "none") =>
                           (a.name = releases[i].assets[k].name /\ ~a.exists)

C14_Witness ==
    /\ Ended
    /\ Len(hist.rlog) >= 2
    /\ hist.rlog[1].exists /\ 1 \notin Creations
    /\ 2 \in Creations /\ hist.rlog[2].create = "ok"
    /\ Len(hist.rlog[1].assets) >= 2
    /\ hist.rlog[1].assets[1].exists /\ <<1, 1>> \notin Transfers
    /\ <<1, 2>> \in Uploads

\* GetSourceRepositoryLatestRelease failed: with a response (404 or another
\* status), or without one
LatestLookupFailed == hist.latest \in {"error", "noResponse"}

\* C15: best-effort latest lookup.  Every failure of
\* GetSourceRepositoryLatestRelease (no release, another failing status, or a
\* transport failure without response) comes back as an error value: the
\* process goes on, latest tracking stays inert with no SetLatestRelease call,
\* and every listed release is processed.
C15_BestEffortLatest ==
    LatestLookupFailed =>
        /\ status # "panic"
        /\ latestID = 0
        /\ newLatestReleaseID = 0
        /\ hist.setLatestCalls = 0
        /\ pc \in {"loop", "create", "refetch", "asset", "download", "upload",
                    "return", "nextRepo", "halt"}
        /\ Ended => Len(hist.rlog) = Len(releases)

\* two releases are the same apart from their assets
SameFields(r, q) ==
    /\ r.id = q.id
    /\ r.tag = q.tag
    /\ r.name = q.name
    /\ r.commitish = q.commitish
    /\ r.body = q.body

\* C16: target releases are not rewritten.  Every release the target held
\* when the run began, one reused after a mismatch and a conflict included,
\* has in every later state of the run the tag, name, commit reference and
\* body it had; the run adds assets to it and may mark it latest, and that is
\* all.
C16_NotRewritten ==
    \A t \in Tags :
        /\ hist.tgtAtStart[t] # NilRelease =>
             /\ SameFields(tgt[t], hist.tgtAtStart[t])
             /\ hist.tgtAtStart[t].assets \subseteq tgt[t].assets
        /\ tgtInit[t] # NilRelease => SameFields(tgt[t], tgtInit[t])

C16_Witness ==
    /\ Ended
    /\ hist.tgtAtStart["v1"].name = "B"
    /\ hist.rlog # <<>>
    /\ hist.rlog[1].create = "conflict" /\ hist.rlog[1].refetch = "ok"
    /\ hist.rlog[1].target = TargetID("v1")
    /\ tgt["v1"].assets # hist.tgtAtStart["v1"].assets
    /\ TargetID("v1") \in hist.marked
    /\ tgt["v1"].body = "old notes"
    /\ tgt["v2"].body = "mapped notes"

RECURSIVE SumSeen(_), SumFailed(_)
SumSeen(cs) == IF cs = <<>> THEN 0 ELSE cs[1].seen + SumSeen(Tail(cs))
SumFailed(cs) == IF cs = <<>> THEN 0 ELSE cs[1].failed + SumFailed(Tail(cs))
\* the calls of migrateRepositoryReleases that have returned; a call that
\* has not is logged with the counts 0 and 0
Returned == SelectSeq(hist.calls, LAMBDA c : c.returned # "none")

\* C17: driver aggregation.  SyncReleases calls migrateRepositoryReleases for
\* the entries of the repository list one after the other, in their order and
\* once each, goes on to the next entry also when a call returned an error,
\* and when it reports, every entry has had its call and the totals are the
\* sums of the (releasesSeen, releasesFailed) pairs the calls returned, with
\* succeeded = total - failed.
C17_DriverAggregation ==
    /\ Len(hist.calls) <= Runs(cfg)
    /\ \A j \in 1..Len(hist.calls) :
         /\ hist.calls[j].entry = j
         /\ j < Len(hist.calls) => hist.calls[j].returned # "none"
         /\ hist.calls[j].returned = "error" <=> hist.calls[j].failed > 0
    /\ totalReleases = SumSeen(hist.calls)
    /\ totalFailed = SumFailed(hist.calls)
    /\ status = "done" =>
         /\ Len(hist.calls) = Runs(cfg)
         /\ Returned = hist.calls
         /\ Succeeded(totalReleases, totalFailed) =
              SumSeen(hist.calls) - SumFailed(hist.calls)

C17_Witness ==
    /\ status = "done"
    /\ cfg.repositoryList
    /\ Len(hist.calls) = 2
    /\ hist.calls[1].returned = "error" /\ hist.calls[1].seen = 2 /\ hist.calls[1].failed = 1
    /\ hist.calls[2].returned = "nil" /\ hist.calls[2].seen = 2
    /\ totalReleases = 4 /\ totalFailed = 1

\* the pages the source host has of the listing; an empty listing is one empty page
NumPages == IF srcReleases = <<>> THEN 1 ELSE (Len(srcReleases) + PerPage - 1) \div PerPage
\* the pages the loop has fetched when it asks for opts.Page
Fetched == PageNumber(page) - 1
\* the releases of the first k pages, in page order
FirstPages(k) ==
    SubSeq(srcReleases, 1, IF k * PerPage < Len(srcReleases) THEN k * PerPage
                           ELSE Len(srcReleases))
Listing == pc = "list" /\ run > 0
ListingFailed == status = "panic" /\ cause = "listReleases"
Listed == pc \in {"latest", "loop", "create", "refetch", "asset", "download", "upload",
                   "return"}

\* what the loop holds, has returned with an error, or has returned
PagesInOrder ==
    /\ Listing => (Fetched < NumPages /\ releases = FirstPages(Fetched))
    /\ ListingFailed => (Fetched < NumPages /\ releases = FirstPages(Fetched))
    /\ Listed => (releases = FirstPages(NumPages) /\ releases = srcReleases /\ page = 0)
\* one request of the loop
PageStep ==
    Listing => \/ Listing' /\ Fetched' = Fetched + 1
               \/ ListingFailed' /\ Fetched' = Fetched
               \/ Listed' /\ Fetched = NumPages - 1

\* C18: pagination of GetSourceRepositoryReleases.  While the loop runs it has
\* the releases of the pages fetched so far, in page order, and a page left
\* to ask for; every request ends the loop, fails, or asks for a later page
\* next, of which there are finitely many, so the loop ends; when a page
\* names no next page the loop returns the releases of all pages in page
\* order; when a request fails the loop stops at once and returns, with the
\* error, exactly the releases of the pages fetched before.
C18_Pagination == []PagesInOrder /\ [][PageStep]_vars

C18_Witness ==
    /\ ListingFailed
    /\ Fetched >= 1
    /\ releases # <<>>
    /\ releases # srcReleases

\* the releases of the run for which a target release was obtained
WithTargetRelease == {i \in Logged : hist.rlog[i].target # 0}

\* C19: the succeeded count matches reality.  At the end of every run
\* releasesCount - failed is the number of listed releases for which a target
\* release was obtained (reused, created, or re-fetched after a conflict),
\* every release skipped without target release is counted in failed, and
\* 0 <= failed <= releasesCount.
C19_SucceededCount ==
    Ended =>
        /\ releasesCount = Len(releases)
        /\ releasesCount - failed = Cardinality(WithTargetRelease)
        /\ failed = Cardinality(Logged \ WithTargetRelease)
        /\ 0 <= failed /\ failed <= releasesCount

\* C20: no stale upload.  Every UploadAssetViaURL call comes right after a
\* DownloadReleaseAssets of the same source asset, in the same iteration,
\* that returned no error: the file it opens is the one that download wrote,
\* with the bytes of the source asset, also when a file of that name was left
\* in the scratch directory by an earlier failed download or upload.
C20_NoStaleUpload ==
    /\ pc = "upload" =>
         /\ hist.rlog[ri].assets[ai].name = asset.name
         /\ hist.rlog[ri].assets[ai].download = "ok"
         /\ hist.rlog[ri].assets[ai].upload = "none"
         /\ HasFile(scratch, asset.name)
         /\ FileSize(scratch, asset.name) = asset.size
    /\ Ended =>
         /\ \A i \in Logged : \A k \in DOMAIN hist.rlog[i].assets :
              LET a == hist.rlog[i].assets[k]
              IN  a.upload # "none" =>
                      (a.download = "ok" /\ a.sent = releases[i].assets[k].size)
         /\ \A t \in Tags : \A e \in tgt[t].assets \ tgtInit[t].assets :
              \E i \in 1..Len(srcReleases) :
                 \E k \in 1..Len(srcReleases[i].assets) :
                    srcReleases[i].tag = t /\ srcReleases[i].assets[k] = e

C20_Witness ==
    /\ Ended
    /\ Len(hist.rlog) >= 2
    /\ hist.rlog[1].assets # <<>> /\ hist.rlog[2].assets # <<>>
    /\ hist.rlog[1].assets[1].name = hist.rlog[2].assets[1].name
    /\ hist.rlog[1].assets[1].download = "err" /\ hist.rlog[1].assets[1].onDisk
    /\ hist.rlog[2].assets[1].upload = "ok"
    /\ hist.rlog[2].assets[1].sent = releases[2].assets[1].size
    /\ tgt["v1"].assets = {} /\ tgt["v2"].assets # {}

====
